---- MODULE Spec2Model ----
(***************************************************************************)
(* Model of scripts/local_model_server.py: the process-wide model state    *)
(* (model, tokenizer, model_config), load_model, main, and the two         *)
(* handlers chat_completions and health run by one asyncio event loop.     *)
(*                                                                         *)
(* Python values: None is the empty tuple, a present value x is <<x>>.     *)
(* A dict with string values is a set of <<key, value>> pairs.             *)
(* A str is a sequence of chunks (role labels, contents, newline).         *)
(***************************************************************************)
EXTENDS Integers, Sequences, FiniteSets, TLC

\* ---- bounds of the model ----
MaxRequests == 2
MaxGen == 1
HashWidth == 16

\* ---- constants of the program ----
DefaultMaxTokens == 512

None == <<>>
Some(x) == <<x>>

ModelIds == {"gpt2"}
Entries == {"main", "embedded"}
HashSeeds == {3}

Requests == 1..MaxRequests

VARIABLES
    entry,          \* how the module runs: __main__ (main()) or imported
    hash_seed,      \* the interpreter's per-process str hash key
    main_pc,        \* position of main()
    load_pc,        \* position of load_model()
    load_calls,     \* number of calls of load_model so far
    load_locals,    \* load_model's model_id, dtype, device
    caps,           \* what torch.cuda reported to the selector
    model,          \* global model
    tokenizer,      \* global tokenizer
    model_config,   \* global model_config
    running,        \* the request whose coroutine holds the event loop, 0 if none
    req,            \* per request: position, locals; once answered, status and id
    last_response,  \* the last chat response sent, in full
    last_health     \* the last health report sent

globals == <<model, tokenizer, model_config>>
loadv == <<load_pc, load_calls, load_locals, caps>>
vars == <<entry, hash_seed, main_pc, load_pc, load_calls, load_locals, caps,
          model, tokenizer, model_config, running, req, last_response, last_health>>

\* ---- Device/precision selection ----

determine_dtype_and_device_swapped(cuda_available, bf16_supported) ==
    IF cuda_available
    THEN IF bf16_supported THEN <<"float16", "cuda">> ELSE <<"bfloat16", "cuda">>
    ELSE <<"float32", "cpu">>

determine_dtype_and_device(cuda_available, bf16_supported) ==
    IF cuda_available
    THEN IF bf16_supported THEN <<"bfloat16", "cuda">> ELSE <<"float16", "cuda">>
    ELSE <<"float32", "cpu">>

\* str(torch.dtype)
StrDtype(dtype) == CASE dtype = "bfloat16" -> "torch.bfloat16"
                     [] dtype = "float16" -> "torch.float16"
                     [] dtype = "float32" -> "torch.float32"

EmptyDict == {}

MakeModelConfig_fixed_device(model_id, dtype, device) ==
    {<<"model_id", model_id>>, <<"dtype", StrDtype(dtype)>>, <<"device", "cuda">>}

MakeModelConfig(model_id, dtype, device) ==
    {<<"model_id", model_id>>, <<"dtype", StrDtype(dtype)>>, <<"device", device>>}

\* ---- Token ids and the tokenizer ----

EosId == 0
PadId == 1
SpecialIds == {EosId, PadId}

Chunks == <<"System: ", "User: ", "Assistant: ", "\n", "Assistant:", "a", "b">>

\* vocabulary: chunk i of Chunks has token id i + 1
TokenOf(chunk) == 1 + CHOOSE i \in 1..Len(Chunks) : Chunks[i] = chunk
ChunkOf(tokid) == Chunks[tokid - 1]

\* ---- load_model ----

LoadActive == load_pc \in {"L86", "L95", "L100", "L107"}

\* main() does not catch what load_model raises: the process ends
main_on_load_error_swallowed == "L217"

main_on_load_error == "aborted"

RaiseFromLoad ==
    /\ load_pc' = "failed"
    /\ main_pc' = IF entry = "main" THEN main_on_load_error ELSE main_pc

\* main(): parse_args, then load_model(args.model)
MainCallsLoad ==
    /\ entry = "main"
    /\ main_pc = "L211"
    /\ \E id \in ModelIds :
          load_locals' = [model_id |-> id, dtype |-> "", device |-> ""]
    /\ main_pc' = "L214"
    /\ load_pc' = "L86"
    /\ load_calls' = load_calls + 1
    /\ UNCHANGED <<entry, hash_seed, caps, globals, running, req, last_response, last_health>>

\* an importing program calls load_model itself, once, between requests
EmbeddedCallsLoad ==
    /\ entry = "embedded"
    /\ load_pc = "idle"
    /\ running = 0
    /\ \E id \in ModelIds :
          load_locals' = [model_id |-> id, dtype |-> "", device |-> ""]
    /\ load_pc' = "L86"
    /\ load_calls' = load_calls + 1
    /\ UNCHANGED <<entry, hash_seed, main_pc, caps, globals, running, req, last_response, last_health>>

\* lines 86-91: run the selector, publish model_config
LoadSelect ==
    /\ load_pc = "L86"
    /\ \E cuda \in BOOLEAN, bf16 \in BOOLEAN :
          LET plan == determine_dtype_and_device(cuda, bf16) IN
          /\ caps' = Some([cuda |-> cuda, bf16 |-> bf16])
          /\ load_locals' = [load_locals EXCEPT !.dtype = plan[1], !.device = plan[2]]
          /\ model_config' = MakeModelConfig(load_locals.model_id, plan[1], plan[2])
    /\ load_pc' = "L95"
    /\ UNCHANGED <<entry, hash_seed, main_pc, load_calls, model, tokenizer,
                   running, req, last_response, last_health>>

\* lines 95-97: tokenizer load (its pad token is not modelled), or the load
\* raises
LoadTokenizer ==
    /\ load_pc = "L95"
    /\ \/ /\ tokenizer' = Some([name |-> load_locals.model_id,
                                eos_token_id |-> EosId])
          /\ load_pc' = "L100"
          /\ UNCHANGED main_pc
       \/ /\ RaiseFromLoad
          /\ UNCHANGED tokenizer
    /\ UNCHANGED <<entry, hash_seed, load_calls, load_locals, caps, model,
                   model_config, running, req, last_response, last_health>>

\* lines 100-105: model load, or the load raises
LoadModel ==
    /\ load_pc = "L100"
    /\ \/ /\ model' = Some([name |-> load_locals.model_id,
                            dtype |-> load_locals.dtype,
                            device |-> IF load_locals.device = "cuda"
                                       THEN "cuda" ELSE "cpu",
                            training |-> TRUE])
          /\ load_pc' = "L107"
          /\ UNCHANGED main_pc
       \/ /\ RaiseFromLoad
          /\ UNCHANGED model
    /\ UNCHANGED <<entry, hash_seed, load_calls, load_locals, caps, tokenizer,
                   model_config, running, req, last_response, last_health>>

\* lines 107-111: move to the host device, eval(); load_model returns
LoadFinish ==
    /\ load_pc = "L107"
    /\ model' = Some([model[1] EXCEPT
                        !.device = IF load_locals.device = "cpu" THEN "cpu" ELSE @,
                        !.training = FALSE])
    /\ load_pc' = "done"
    /\ main_pc' = IF entry = "main" THEN "L217" ELSE main_pc
    /\ UNCHANGED <<entry, hash_seed, load_calls, load_locals, caps, tokenizer,
                   model_config, running, req, last_response, last_health>>

\* lines 217-218: uvicorn.run(app)
MainServe ==
    /\ entry = "main"
    /\ main_pc = "L217"
    /\ main_pc' = "serving"
    /\ UNCHANGED <<entry, hash_seed, loadv, globals, running, req, last_response, last_health>>

\* the app object receives requests: under main() once uvicorn runs, in an
\* importing program whenever load_model is not executing
Accepting ==
    \/ entry = "main" /\ main_pc = "serving"
    \/ entry = "embedded" /\ ~LoadActive

\* ---- Requests ----

Roles == {"system", "user", "assistant", "tool"}
Message(role, content) == [role |-> role, content |-> content]

RequestMessages ==
    { << Message("user", "a") >>,
      << Message("system", "a"), Message("user", "b") >>,
      << Message("tool", "a") >> }

\* ChatCompletionRequest after validation; temperature in tenths
RequestBodies ==
    [ messages : RequestMessages,
      stream : BOOLEAN,
      max_tokens : {None, Some(1)},
      temperature : {None, Some(7)} ]

\* lines 126-134: the prompt of a conversation
RECURSIVE FormatMessages(_)
FormatMessages(messages) ==
    IF messages = <<>> THEN <<>>
    ELSE LET msg == Head(messages) IN
         (CASE msg.role = "system" -> <<"System: ", msg.content, "\n">>
            [] msg.role = "user" -> <<"User: ", msg.content, "\n">>
            [] msg.role = "assistant" -> <<"Assistant: ", msg.content, "\n">>
            [] OTHER -> <<>>)
         \o FormatMessages(Tail(messages))

FormatPrompt(messages) == FormatMessages(messages) \o <<"Assistant:">>

\* tokenizer(prompt)["input_ids"][0]: one sequence, so padding adds nothing
RECURSIVE Encode(_)
Encode(text) ==
    IF text = <<>> THEN <<>> ELSE <<TokenOf(Head(text))>> \o Encode(Tail(text))

\* tokenizer.decode(ids, skip_special_tokens=True)
RECURSIVE Decode(_)
Decode(ids) ==
    IF ids = <<>> THEN <<>>
    ELSE (IF Head(ids) \in SpecialIds THEN <<>> ELSE <<ChunkOf(Head(ids))>>)
         \o Decode(Tail(ids))

\* builtin hash of a str: keyed by the process seed, a signed machine word
RECURSIVE HashFold(_, _)
HashFold(h, text) ==
    IF text = <<>> THEN h
    ELSE HashFold((h * 31 + TokenOf(Head(text))) % (2 ^ HashWidth), Tail(text))

PyHash(text) ==
    LET h == HashFold(hash_seed, text) IN
    IF h >= 2 ^ (HashWidth - 1) THEN h - 2 ^ HashWidth ELSE h

\* str(int)
Digit(d) == CASE d = 0 -> "0" [] d = 1 -> "1" [] d = 2 -> "2" [] d = 3 -> "3"
              [] d = 4 -> "4" [] d = 5 -> "5" [] d = 6 -> "6" [] d = 7 -> "7"
              [] d = 8 -> "8" [] d = 9 -> "9"

RECURSIVE StrNat(_)
StrNat(n) == IF n < 10 THEN <<Digit(n)>> ELSE StrNat(n \div 10) \o <<Digit(n % 10)>>

StrInt(n) == IF n < 0 THEN <<"-">> \o StrNat(0 - n) ELSE StrNat(n)

\* line 160
ResponseId(prompt) == <<"local-">> \o StrInt(PyHash(prompt))

\* line 141: request.max_tokens or 512
MaxNewTokens(max_tokens) ==
    IF max_tokens = None \/ max_tokens[1] = 0 THEN DefaultMaxTokens ELSE max_tokens[1]

\* lines 153-156: outputs[0][inputs["input_ids"].shape[1]:]
SliceCompletion_whole(outputs, n) == outputs

SliceCompletion(outputs, n) == SubSeq(outputs, n + 1, Len(outputs))

\* lines 168-172
Usage(input_ids, outputs) ==
    [ prompt_tokens |-> Len(input_ids),
      completion_tokens |-> Len(outputs) - Len(input_ids),
      total_tokens |-> Len(outputs) ]

NoUsage == [prompt_tokens |-> 0, completion_tokens |-> 0, total_tokens |-> 0]

\* what model.generate may append to the prompt
GenVocab == {EosId, TokenOf("a")}
Min(a, b) == IF a < b THEN a ELSE b
Generations(max_new_tokens) ==
    UNION { [1..k -> GenVocab] : k \in 0..Min(max_new_tokens, MaxGen) }

NewRequest ==
    [ pc |-> "new", body |-> None, prompt |-> <<>>, input_ids |-> <<>>,
      max_new_tokens |-> 0, outputs |-> <<>>,
      status |-> 0, detail |-> "", id |-> <<>>, content |-> <<>>, usage |-> NoUsage,
      stream |-> FALSE, unloaded |-> FALSE, tokenize_calls |-> 0,
      generate_calls |-> 0, gen |-> <<>>, n_prompt |-> 0 ]

\* the handler returns or raises with locals q: the locals die, the response
\* is sent
Finish(r, q, status, detail) ==
    /\ req' = [req EXCEPT ![r] = [NewRequest EXCEPT !.pc = "done",
                                                    !.status = status,
                                                    !.id = q.id]]
    /\ last_response' = Some([ status |-> status, detail |-> detail, id |-> q.id,
                               content |-> q.content, usage |-> q.usage,
                               stream |-> q.stream, unloaded |-> q.unloaded,
                               tokenize_calls |-> q.tokenize_calls,
                               generate_calls |-> q.generate_calls,
                               gen |-> q.gen, n_prompt |-> q.n_prompt ])

InHandler(r) == req[r].pc \in {"L126", "L137", "L141", "L143", "L153"}

\* ---- The event loop and the handlers ----

\* both handlers are `async def` without an await: once the loop has entered
\* one, it enters no other until that one has returned or raised
LoopFree_threadpool == TRUE

LoopFree == running = 0

\* line 121
NotLoaded_tokenizer_only(m, t) == t = None

NotLoaded(m, t) == m = None \/ t = None

\* lines 175-177: except Exception -> HTTPException(500)
GenerationError_drops_model(r, detail) ==
    /\ Finish(r, req[r], 500, detail)
    /\ running' = 0
    /\ model' = None
    /\ UNCHANGED <<tokenizer, model_config>>

GenerationError(r, detail) ==
    /\ Finish(r, req[r], 500, detail)
    /\ running' = 0
    /\ UNCHANGED globals

\* a POST /v1/chat/completions reaches the server; requests are numbered in
\* the order they arrive
Arrive(r) ==
    /\ Accepting
    /\ req[r].pc = "new"
    /\ IF r = 1 THEN TRUE ELSE req[r - 1].pc # "new"
    /\ req' = [req EXCEPT ![r].pc = "queued"]
    /\ UNCHANGED <<entry, hash_seed, main_pc, loadv, globals, running,
                   last_response, last_health>>

\* the loop enters chat_completions(request), oldest request first; lines 121-122
Dispatch(r) ==
    /\ Accepting
    /\ LoopFree
    /\ req[r].pc = "queued"
    /\ IF r = 1 THEN TRUE ELSE req[r - 1].pc \notin {"new", "queued"}
    /\ \E body \in RequestBodies :
          LET q == [req[r] EXCEPT !.body = Some(body), !.stream = body.stream,
                                  !.unloaded = (model = None \/ tokenizer = None)] IN
          IF NotLoaded(model, tokenizer)
          THEN /\ Finish(r, q, 503, "Model not loaded")
               /\ UNCHANGED running
          ELSE /\ req' = [req EXCEPT ![r] = [q EXCEPT !.pc = "L126"]]
               /\ running' = r
               /\ UNCHANGED last_response
    /\ UNCHANGED <<entry, hash_seed, main_pc, loadv, globals, last_health>>

\* lines 126-134
BuildPrompt(r) ==
    /\ req[r].pc = "L126"
    /\ req' = [req EXCEPT ![r].prompt = FormatPrompt(req[r].body[1].messages),
                          ![r].pc = "L137"]
    /\ UNCHANGED <<entry, hash_seed, main_pc, loadv, globals, running,
                   last_response, last_health>>

\* lines 137-138: the tokenizer call, then the move to model.device
Tokenize(r) ==
    /\ req[r].pc = "L137"
    /\ IF tokenizer = None
       THEN GenerationError(r, "TypeError")
       ELSE LET q == [req[r] EXCEPT !.tokenize_calls = @ + 1,
                                    !.input_ids = Encode(req[r].prompt),
                                    !.n_prompt = Len(Encode(req[r].prompt))] IN
            IF model = None
            THEN /\ Finish(r, q, 500, "AttributeError")
                 /\ running' = 0
                 /\ UNCHANGED globals
            ELSE /\ req' = [req EXCEPT ![r] = [q EXCEPT !.pc = "L141"]]
                 /\ UNCHANGED <<running, globals, last_response>>
    /\ UNCHANGED <<entry, hash_seed, main_pc, loadv, last_health>>

\* lines 141-150: the arguments are evaluated, then model.generate is entered;
\* no later line reads the request, so its body is dropped here
CallGenerate(r) ==
    /\ req[r].pc = "L141"
    /\ LET body == req[r].body[1] IN
       IF body.temperature = None
       THEN GenerationError(r, "TypeError")
       ELSE /\ req' = [req EXCEPT ![r].max_new_tokens = MaxNewTokens(body.max_tokens),
                                  ![r].generate_calls = @ + 1,
                                  ![r].body = None,
                                  ![r].pc = "L143"]
            /\ UNCHANGED <<running, globals, last_response>>
    /\ UNCHANGED <<entry, hash_seed, main_pc, loadv, last_health>>

\* model.generate returns the prompt followed by the new tokens, or raises
GenerateReturns(r) ==
    /\ req[r].pc = "L143"
    /\ \/ \E g \in Generations(req[r].max_new_tokens) :
             /\ req' = [req EXCEPT ![r].outputs = req[r].input_ids \o g,
                                   ![r].gen = g,
                                   ![r].pc = "L153"]
             /\ UNCHANGED <<running, globals, last_response>>
       \/ GenerationError(r, "RuntimeError")
    /\ UNCHANGED <<entry, hash_seed, main_pc, loadv, last_health>>

\* lines 153-173: decode the completion, build the response
Respond(r) ==
    /\ req[r].pc = "L153"
    /\ LET n == Len(req[r].input_ids)
           generated_text == Decode(SliceCompletion(req[r].outputs, n))
           q == [req[r] EXCEPT !.id = ResponseId(req[r].prompt),
                               !.content = generated_text,
                               !.usage = Usage(req[r].input_ids, req[r].outputs)] IN
       Finish(r, q, 200, "")
    /\ running' = 0
    /\ UNCHANGED <<entry, hash_seed, main_pc, loadv, globals, last_health>>

\* lines 180-187
health == [ status |-> "ok", model_loaded |-> model # None, config |-> model_config ]

\* a GET /health is answered; `at` remembers where load_model stood
HealthCall ==
    /\ Accepting
    /\ LoopFree
    /\ last_health' = Some([report |-> health, at |-> load_pc])
    /\ UNCHANGED <<entry, hash_seed, main_pc, loadv, globals, running, req,
                   last_response>>

\* ---- The program ----

Init ==
    /\ entry \in Entries
    /\ hash_seed \in HashSeeds
    /\ main_pc = IF entry = "main" THEN "L211" ELSE "imported"
    /\ load_pc = "idle"
    /\ load_calls = 0
    /\ load_locals = [model_id |-> "", dtype |-> "", device |-> ""]
    /\ caps = None
    /\ model = None
    /\ tokenizer = None
    /\ model_config = EmptyDict
    /\ running = 0
    /\ req = [r \in Requests |-> NewRequest]
    /\ last_response = None
    /\ last_health = None

Next ==
    \/ MainCallsLoad
    \/ EmbeddedCallsLoad
    \/ LoadSelect
    \/ LoadTokenizer
    \/ LoadModel
    \/ LoadFinish
    \/ MainServe
    \/ HealthCall
    \/ \E r \in Requests : Arrive(r)
    \/ \E r \in Requests : Dispatch(r)
    \/ \E r \in Requests : BuildPrompt(r)
    \/ \E r \in Requests : Tokenize(r)
    \/ \E r \in Requests : CallGenerate(r)
    \/ \E r \in Requests : GenerateReturns(r)
    \/ \E r \in Requests : Respond(r)

Spec == Init /\ [][Next]_vars

\* ---- Properties ----

Answered == last_response # None
Resp == last_response[1]

\* C1: a chat request handled while model or tokenizer is unset is answered
\* 503 "Model not loaded", and no tokenize or generate call is made for it
C1_UnloadedRejected ==
    /\ Answered /\ Resp.unloaded =>
          /\ Resp.status = 503
          /\ Resp.detail = "Model not loaded"
          /\ Resp.tokenize_calls = 0
          /\ Resp.generate_calls = 0
    /\ \A r \in Requests : InHandler(r) => ~req[r].unloaded

C1_Witness ==
    /\ Answered /\ Resp.unloaded /\ Resp.status = 503
    /\ tokenizer # None /\ model = None

\* C2: a health call before load reports model_loaded false and an empty
\* config; a health call after a successful load reports model_loaded true
\* and a config echoing the model id and the selector's precision and device
C2_HealthBeforeAndAfterLoad ==
    last_health # None =>
       LET h == last_health[1] IN
       /\ h.at = "idle" =>
             /\ h.report.model_loaded = FALSE
             /\ h.report.config = {}
       /\ h.at = "done" =>
             /\ h.report.model_loaded = TRUE
             /\ \E p \in {<<"bfloat16", "torch.bfloat16">>,
                          <<"float16", "torch.float16">>,
                          <<"float32", "torch.float32">>} :
                   /\ load_locals.dtype = p[1]
                   /\ h.report.config = {<<"model_id", load_locals.model_id>>,
                                         <<"dtype", p[2]>>,
                                         <<"device", load_locals.device>>}

C2_Witness ==
    /\ last_health # None
    /\ last_health[1].at = "done"
    /\ last_health[1].report.model_loaded
    /\ load_locals.device = "cpu"

\* C3: once load_model has returned, no step of a chat request (a failing one
\* included) or of a health call changes model, tokenizer or model_config
C3_LoadedStateFrozen ==
    [][load_pc = "done" =>
          /\ model' = model
          /\ tokenizer' = tokenizer
          /\ model_config' = model_config
          /\ load_pc' = "done"]_vars

C3_Witness ==
    /\ load_pc = "done"
    /\ model # None /\ tokenizer # None
    /\ \E r1, r2 \in Requests :
          r1 < r2 /\ req[r1].status = 500 /\ req[r2].status = 200

\* C4: main() starts the server only after load_model has returned normally;
\* when the tokenizer or model load raises, main() ends, load_model is not
\* called again and no request is ever served
C4_ServeOnlyAfterLoad ==
    /\ main_pc \in {"L217", "serving"} =>
          load_pc = "done" /\ model # None /\ tokenizer # None
    /\ entry = "main" /\ load_pc = "failed" => main_pc = "aborted"
    /\ main_pc = "aborted" =>
          /\ load_pc = "failed"
          /\ last_health = None
          /\ \A r \in Requests : req[r].pc = "new"
    /\ load_calls <= 1

C4_Witness ==
    /\ entry = "main"
    /\ main_pc = "aborted"
    /\ tokenizer # None /\ model = None

\* C5: the selector's plan is bfloat16 on cuda with an accelerator that
\* supports bf16, float16 on cuda with one that does not, float32 on cpu
\* without an accelerator
C5_SelectorTable ==
    caps # None =>
       LET c == caps[1]
           plan == <<load_locals.dtype, load_locals.device>> IN
       /\ c.cuda /\ c.bf16 => plan = <<"bfloat16", "cuda">>
       /\ c.cuda /\ ~c.bf16 => plan = <<"float16", "cuda">>
       /\ ~c.cuda => plan = <<"float32", "cpu">>

C5_Witness ==
    /\ caps # None
    /\ caps[1].cuda /\ ~caps[1].bf16
    /\ load_locals.dtype = "float16"

\* C6: in a 200 response the content is the decoding of exactly the tokens
\* generate appended to the prompt, and usage is N prompt tokens, K
\* completion tokens, N + K in total
C6_CompletionAndUsage ==
    Answered /\ Resp.status = 200 =>
       /\ Resp.content = Decode(Resp.gen)
       /\ Resp.usage.prompt_tokens = Resp.n_prompt
       /\ Resp.usage.completion_tokens = Len(Resp.gen)
       /\ Resp.usage.total_tokens = Resp.n_prompt + Len(Resp.gen)

C6_Witness ==
    /\ Answered /\ Resp.status = 200
    /\ Len(Resp.gen) >= 1
    /\ Resp.content # <<>>
    /\ Resp.n_prompt > 1

\* C7: two 200 responses to two separate requests never carry the same id
C7_FreshIds ==
    \A r1, r2 \in Requests :
       r1 # r2 /\ req[r1].status = 200 /\ req[r2].status = 200 =>
          req[r1].id # req[r2].id

\* C8: a request with stream = true is never answered 200 and never reaches
\* model.generate
C8_StreamRejected ==
    /\ Answered /\ Resp.stream => Resp.status # 200 /\ Resp.generate_calls = 0
    /\ \A r \in Requests : req[r].stream => req[r].pc \notin {"L143", "L153"}

\* C9: the health report has a non-empty config only when it reports
\* model_loaded = true, in every state and in every report sent
C9_ConfigOnlyWhenLoaded ==
    /\ health.config # {} => health.model_loaded
    /\ last_health # None =>
          (last_health[1].report.config # {} => last_health[1].report.model_loaded)

\* C10: while one request is inside model.generate, no other request is
\* anywhere between its tokenizer call and its response
C10_OneGenerateAtATime ==
    \A r1, r2 \in Requests :
       r1 # r2 /\ req[r1].pc = "L143" => ~InHandler(r2)

C10_Witness ==
    \E r1, r2 \in Requests :
       r1 # r2 /\ req[r1].pc = "L143" /\ req[r2].pc = "queued"

====
